---- MODULE Spec2Model ----
(***************************************************************************)
(* alphabet_mask: the mask encoder (mask_string), the chunker              *)
(* (Chunker::next), the sequential and the chunk-parallel aggregation      *)
(* (find_common_mask, find_common_mask_parallel) and the dispatcher        *)
(* (common_alphabets).                                                     *)
(*                                                                         *)
(* A string is a sequence of Unicode code points.  A u32 mask is           *)
(* represented by the set of the positions of its one-bits (a subset of    *)
(* 0..31): `|` is union, `&` is intersection, 0 is {} and u32::MAX is      *)
(* 0..31.  usize is scaled down to 0..UsizeMax.                            *)
(***************************************************************************)
EXTENDS Integers, Sequences, FiniteSets

\* ------------------------------------------------------------------ bounds

\* usize::MAX, scaled down; a string is at most isize::MAX bytes long, which
\* is what the three-byte strings of the Corpus are to a UsizeMax of 7.
UsizeMax == 7

\* The largest number of strings in an input.
MaxStrings == 3

\* The largest number of characters of a string handed to alphabet_mask.
MaxChars == 2

\* ------------------------------------------------------------ Option/Result

None == [tag |-> "None"]

Some(x) == [tag |-> "Some", item |-> x]

Ok(m) == [tag |-> "Ok", mask |-> m]

\* The error names the offending character.
Err(c) == [tag |-> "Err", char |-> c]

\* ---------------------------------------------------------------- strings

\* The code points alphabet_mask is tried on: space ! " ' , - . 0 @ A Z [ a z
\* DEL, U+00E9, U+0100, U+0120, U+0141, U+20AC, U+1F600.
Chars ==
    {32, 33, 34, 39, 44, 45, 46, 48, 64, 65, 90, 91, 97, 122, 127,
     233, 256, 288, 321, 8364, 128512}

\* The strings the inputs of the chunker and of the aggregators are drawn
\* from: "", "a", "Ab.", "Hi!", U+00E9.
Corpus ==
    {<<>>, <<97>>, <<65, 98, 46>>, <<72, 105, 33>>, <<233>>}

\* The number of bytes of the UTF-8 encoding of a code point.
len_utf8(c) ==
    IF c < 128 THEN 1 ELSE IF c < 2048 THEN 2 ELSE IF c < 65536 THEN 3 ELSE 4

\* str::len: the length of a string in bytes.
RECURSIVE str_len(_)
str_len(s) ==
    IF s = <<>> THEN 0 ELSE len_utf8(Head(s)) + str_len(Tail(s))

\* All sequences over S of length at most n.
SeqsUpTo(S, n) == UNION {[1..k -> S] : k \in 0..n}

\* ------------------------------------------------------------ mask encoder

\* `c as u8`: a char narrows to its low eight bits.
as_u8(c) == c % 256

\* `v & bit != 0` for a single bit of a u8.
BitSet(v, bit) == (v \div bit) % 2 = 1

\* Variant: the character's bit replaces the mask instead of joining it.
mask_char_overwrite(acc, c) ==
    LET char_code == as_u8(c) IN
    CASE char_code = 32 -> Ok({0})
      [] char_code = 46 -> Ok({27})
      [] char_code = 44 -> Ok({28})
      [] char_code = 39 -> Ok({29})
      [] char_code = 45 -> Ok({30})
      [] char_code = 34 -> Ok({31})
      [] OTHER ->
            IF ~BitSet(char_code, 64) \/ BitSet(char_code, 128)
            THEN Err(c)
            ELSE Ok({char_code % 32})

\* The closure of mask_string's try_fold: one character into the mask.
mask_char(acc, c) ==
    LET char_code == as_u8(c) IN
    CASE char_code = 32 -> Ok(acc \cup {0})
      [] char_code = 46 -> Ok(acc \cup {27})
      [] char_code = 44 -> Ok(acc \cup {28})
      [] char_code = 39 -> Ok(acc \cup {29})
      [] char_code = 45 -> Ok(acc \cup {30})
      [] char_code = 34 -> Ok(acc \cup {31})
      [] OTHER ->
            IF ~BitSet(char_code, 64) \/ BitSet(char_code, 128)
            THEN Err(c)
            ELSE Ok(acc \cup {char_code % 32})

\* try_fold: left to right, stopping at the first error.
RECURSIVE mask_fold(_, _)
mask_fold(acc, s) ==
    IF s = <<>> THEN Ok(acc)
    ELSE LET r == mask_char(acc, Head(s)) IN
         IF r.tag = "Err" THEN r ELSE mask_fold(r.mask, Tail(s))

mask_string(s) == mask_fold({}, s)

\* Variant: the full stop and the comma are swapped.
bit_char_swapped(i) ==
    CASE i = 0 -> 32
      [] i = 27 -> 44
      [] i = 28 -> 46
      [] i = 29 -> 39
      [] i = 30 -> 45
      [] i = 31 -> 34
      [] OTHER -> i + 96

\* mask_to_chars: one character per set bit, in ascending bit order.
bit_char(i) ==
    CASE i = 0 -> 32
      [] i = 27 -> 46
      [] i = 28 -> 44
      [] i = 29 -> 39
      [] i = 30 -> 45
      [] i = 31 -> 34
      [] OTHER -> i + 96

RECURSIVE chars_fold(_, _, _)
chars_fold(acc, i, mask) ==
    IF i > 31 THEN acc
    ELSE chars_fold(IF i \in mask THEN Append(acc, bit_char(i)) ELSE acc,
                    i + 1, mask)

mask_to_chars(mask) == chars_fold(<<>>, 0, mask)

\* ---------------------------------------------------------- mask combiner

U32Max == 0..31

\* Variant: a plain fold, which encodes every string and keeps the last error.
RECURSIVE try_fold_masks_no_stop(_, _, _)
try_fold_masks_no_stop(acc, strs, n) ==
    IF strs = <<>> THEN [res |-> acc, encoded |-> n]
    ELSE LET result == mask_string(Head(strs)) IN
         try_fold_masks_no_stop(
             IF result.tag = "Err" THEN result
             ELSE IF acc.tag = "Err" THEN acc
             ELSE Ok(acc.mask \cap result.mask),
             Tail(strs), n + 1)

\* The try_fold of intersect_masks over strings.map(mask_string), from the
\* result acc with n strings encoded so far: the map is lazy, so a string is
\* encoded only when the fold reaches it, and the fold stops at the first
\* error.  Gives the result and the number of strings encoded.
RECURSIVE try_fold_masks(_, _, _)
try_fold_masks(acc, strs, n) ==
    IF strs = <<>> THEN [res |-> acc, encoded |-> n]
    ELSE LET result == mask_string(Head(strs)) IN
         IF result.tag = "Ok"
         THEN try_fold_masks(Ok(acc.mask \cap result.mask), Tail(strs), n + 1)
         ELSE [res |-> result, encoded |-> n + 1]

\* intersect_masks: the fold's result.
intersect_masks(acc, strs) == try_fold_masks(Ok(acc), strs, 0).res

\* Variant: only the first string is encoded.
find_common_mask_first(strs) ==
    IF strs = <<>> THEN Ok(U32Max) ELSE mask_string(Head(strs))

\* Variant: the fold starts from 0.
find_common_mask_from_zero(strs) == intersect_masks({}, strs)

\* find_common_mask: intersect_masks over the strings, from u32::MAX.
find_common_mask(strs) == intersect_masks(U32Max, strs)

\* ------------------------------------------------------------------ state

VARIABLES
    string,             \* alphabet_mask: its argument
    mask,               \* alphabet_mask: what it returned
    strings,            \* the input strings, in order
    length_limit,       \* Chunker::length_limit / common_alphabets' length_limit
    overflow_checks,    \* whether the build panics on integer overflow (debug)
    peekable,           \* Chunker::strings, a Peekable over the input
    ret,                \* what the last Chunker::next() call returned
    emitted,            \* the chunks next() has returned so far, in order
    todo,               \* chunks a worker has taken and not yet mapped
    partials,           \* the partial results of the reduction
    err_if_parallelise, \* common_alphabets: the result of the size scan
    result,             \* what find_common_mask(_parallel) returned
    seq_encoded,        \* how many strings the sequential path has encoded
    output,             \* what common_alphabets returned
    pc                  \* where the call is

vars ==
    <<string, mask, strings, length_limit, overflow_checks, peekable, ret,
      emitted, todo, partials, err_if_parallelise, result, seq_encoded,
      output, pc>>

chunker_vars == <<peekable, ret, emitted>>

input_vars == <<strings, length_limit, overflow_checks>>

aggregate_vars == <<result, seq_encoded>>

encoder_vars == <<string, mask>>

Pending == [tag |-> "Pending"]

Panic == [tag |-> "Panic"]

\* ---------------------------------------------------------------- chunker

\* vec::IntoIter::next over the input: pos strings have been pulled.
iter_next(strs, pos) ==
    IF pos < Len(strs)
    THEN [item |-> Some(strs[pos + 1]), pos |-> pos + 1]
    ELSE [item |-> None, pos |-> pos]

\* Peekable::peek: fills the peeked slot (an Option<Option<&str>>) from the
\* underlying iterator unless it is already filled.
peek(strs, pk) ==
    IF pk.peeked.tag = "Some" THEN pk
    ELSE LET n == iter_next(strs, pk.pos) IN
         [pos |-> n.pos, peeked |-> Some(n.item)]

\* Peekable::next: takes the peeked slot if it is filled.
peekable_next(strs, pk) ==
    IF pk.peeked.tag = "Some"
    THEN [item |-> pk.peeked.item, pk |-> [pos |-> pk.pos, peeked |-> None]]
    ELSE LET n == iter_next(strs, pk.pos) IN
         [item |-> n.item, pk |-> [pos |-> n.pos, peeked |-> None]]

\* Chunker::with_length_limit: strings.peekable().
with_length_limit == [pos |-> 0, peeked |-> None]

\* `length + string_length` on usize: the sum, wrapped when the build does not
\* check overflow, a panic when it does.
usize_add(a, b, checks) ==
    IF a + b <= UsizeMax THEN Some(a + b)
    ELSE IF checks THEN Panic
    ELSE Some((a + b) % (UsizeMax + 1))

\* Variant: the string is returned as a chunk and left in the iterator.
return_single_peek_only(strs, pk) ==
    [ret |-> Some(<<pk.peeked.item.item>>), pk |-> pk]

\* The string does not fit and the chunk is empty: a chunk of that string.
return_single(strs, pk) ==
    LET n == peekable_next(strs, pk) IN
    [ret |-> Some(<<n.item.item>>), pk |-> n.pk]

\* Variant: the string that closes the chunk is consumed with it.
return_current_skipping(strs, pk, chunk) ==
    [ret |-> Some(chunk), pk |-> peekable_next(strs, pk).pk]

\* The string does not fit the current chunk: the chunk, the string left peeked.
return_current(strs, pk, chunk) ==
    [ret |-> Some(chunk), pk |-> pk]

\* Variant: the remaining chunk is returned even when it is empty.
end_of_input_always_some(pk, chunk) ==
    [ret |-> Some(chunk), pk |-> pk]

\* After the loop: the remaining chunk, or None.
end_of_input(pk, chunk) ==
    [ret |-> IF chunk = <<>> THEN None ELSE Some(chunk), pk |-> pk]

\* The while-let loop of Chunker::next, from a chunk and its length so far.
RECURSIVE next_loop(_, _, _, _, _, _)
next_loop(strs, limit, checks, pk0, chunk, length) ==
    LET pk == peek(strs, pk0) IN
    IF pk.peeked.item.tag = "None" THEN end_of_input(pk, chunk)
    ELSE
        LET string_length == str_len(pk.peeked.item.item)
            sum == usize_add(length, string_length, checks)
        IN  IF sum.tag = "Panic" THEN [ret |-> Panic, pk |-> pk]
            ELSE IF sum.item > limit
            THEN IF chunk = <<>>
                 THEN return_single(strs, pk)
                 ELSE return_current(strs, pk, chunk)
            ELSE LET n == peekable_next(strs, pk) IN
                 next_loop(strs, limit, checks, n.pk,
                           Append(chunk, n.item.item), sum.item)

\* Chunker::next.
next(strs, limit, checks, pk) == next_loop(strs, limit, checks, pk, <<>>, 0)

\* Iterator::collect over a chunker: next() until it returns no chunk.
RECURSIVE collect(_, _, _, _, _)
collect(strs, limit, checks, pk, chunks) ==
    LET r == next(strs, limit, checks, pk) IN
    IF r.ret.tag = "Some"
    THEN collect(strs, limit, checks, r.pk, Append(chunks, r.ret.item))
    ELSE chunks

\* One call of Chunker::next on the chunker of the state.
CallNext ==
    LET r == next(strings, length_limit, overflow_checks, peekable) IN
    /\ peekable' = r.pk
    /\ ret' = r.ret
    /\ emitted' = IF r.ret.tag = "Some" THEN Append(emitted, r.ret.item)
                  ELSE emitted

\* A caller pulling the chunks one by one (Iterator::collect, a for loop).
Collect_next ==
    /\ pc = "collect"
    /\ CallNext
    /\ pc' = IF ret'.tag = "Panic" THEN "panicked" ELSE "collect"
    /\ UNCHANGED <<input_vars, encoder_vars, todo, partials,
                   err_if_parallelise, aggregate_vars, output>>

\* ----------------------------------------------------- parallel aggregator

\* Variant: the reduction starts from 0.
try_reduce_identity_zero == {}

\* try_reduce's identity closure, `|| u32::MAX`.
try_reduce_identity == U32Max

\* Variant: the merge keeps the left mask only.
try_reduce_op_left(a, b) ==
    IF a.tag = "Err" THEN a
    ELSE IF b.tag = "Err" THEN b
    ELSE Ok(a.mask)

\* Variant: an error is dropped when the other side is a mask.
try_reduce_op_swallow(a, b) ==
    IF a.tag = "Err" THEN b
    ELSE IF b.tag = "Err" THEN a
    ELSE Ok(a.mask \cap b.mask)

\* try_reduce's step on two partial results: `|a, b| Ok(a & b)` when both are
\* masks; an error short-circuits, the left one when both are errors.
try_reduce_op(a, b) ==
    IF a.tag = "Err" THEN a
    ELSE IF b.tag = "Err" THEN b
    ELSE Ok(a.mask \cap b.mask)

\* par_bridge: a worker locks the chunker and calls next(); a panic in it
\* aborts the call.
Worker_take ==
    /\ pc = "parallel"
    /\ CallNext
    /\ todo' = IF ret'.tag = "Some" THEN todo \cup {Len(emitted')} ELSE todo
    /\ pc' = IF ret'.tag = "Panic" THEN "panicked" ELSE "parallel"
    /\ UNCHANGED <<input_vars, encoder_vars, partials, err_if_parallelise,
                   aggregate_vars, output>>

\* map: the worker runs find_common_mask over a chunk it took and folds the
\* result into a partial result that starts from the identity.
Worker_map ==
    /\ pc = "parallel"
    /\ \E i \in todo :
          /\ todo' = todo \ {i}
          /\ partials' = partials \cup
                {[covers |-> {i},
                  res |-> try_reduce_op(Ok(try_reduce_identity),
                                        find_common_mask(emitted[i]))]}
    /\ UNCHANGED <<input_vars, encoder_vars, chunker_vars,
                   err_if_parallelise, aggregate_vars, output, pc>>

\* try_reduce: two partial results are merged into one, in either order.
Reduce ==
    /\ pc = "parallel"
    /\ \E p \in partials : \E q \in partials \ {p} :
          partials' = (partials \ {p, q}) \cup
                {[covers |-> p.covers \cup q.covers,
                  res |-> try_reduce_op(p.res, q.res)]}
    /\ UNCHANGED <<input_vars, encoder_vars, chunker_vars, todo,
                   err_if_parallelise, aggregate_vars, output, pc>>

\* find_common_mask_parallel returns: the chunker is exhausted, or an error
\* stopped the workers; every chunk taken is mapped and merged.
Finish ==
    /\ pc = "parallel"
    /\ todo = {}
    /\ ret = None \/ \E p \in partials : p.res.tag = "Err"
    /\ \/ partials = {} /\ result' = Ok(try_reduce_identity)
       \/ \E p \in partials : partials = {p} /\ result' = p.res
    /\ pc' = "aggregated"
    /\ UNCHANGED <<input_vars, encoder_vars, chunker_vars, todo, partials,
                   err_if_parallelise, seq_encoded, output>>

\* ------------------------------------------------------------- dispatcher

\* Variant: the addition wraps instead of reporting the overflow.
checked_add_wrapping(a, b) == Some((a + b) % (UsizeMax + 1))

\* usize::checked_add.
checked_add(a, b) == IF a + b <= UsizeMax THEN Some(a + b) ELSE None

\* Variant: a total equal to the limit already selects the parallel path.
RECURSIVE scan_at_limit(_, _, _)
scan_at_limit(acc, strs, limit) ==
    IF strs = <<>> THEN [tag |-> "Ok", len |-> acc]
    ELSE LET sum == checked_add(acc, str_len(Head(strs))) IN
         IF sum.tag = "Some"
         THEN IF sum.item >= limit THEN [tag |-> "Err"]
              ELSE scan_at_limit(sum.item, Tail(strs), limit)
         ELSE [tag |-> "Err"]

\* The try_fold of common_alphabets over the lengths, from acc.
RECURSIVE scan(_, _, _)
scan(acc, strs, limit) ==
    IF strs = <<>> THEN [tag |-> "Ok", len |-> acc]
    ELSE LET sum == checked_add(acc, str_len(Head(strs))) IN
         IF sum.tag = "Some"
         THEN IF sum.item > limit THEN [tag |-> "Err"]
              ELSE scan(sum.item, Tail(strs), limit)
         ELSE [tag |-> "Err"]

\* common_alphabets: the size scan, which picks the path.
Scan ==
    /\ pc = "scan"
    /\ err_if_parallelise' = scan(0, strings, length_limit)
    /\ pc' = IF err_if_parallelise'.tag = "Ok" THEN "sequential" ELSE "parallel"
    /\ UNCHANGED <<input_vars, encoder_vars, chunker_vars, todo, partials,
                   aggregate_vars, output>>

\* Ok => find_common_mask(strings).
Sequential ==
    /\ pc = "sequential"
    /\ result' = find_common_mask(strings)
    /\ seq_encoded' = try_fold_masks(Ok(U32Max), strings, 0).encoded
    /\ pc' = "aggregated"
    /\ UNCHANGED <<input_vars, encoder_vars, chunker_vars, todo, partials,
                   err_if_parallelise, output>>

\* The match on the aggregate: the rendered mask, or a PyValueError carrying
\* the error.
Render ==
    /\ pc = "aggregated"
    /\ output' = IF result.tag = "Ok"
                 THEN [tag |-> "Ok", chars |-> mask_to_chars(result.mask)]
                 ELSE [tag |-> "PyValueError", char |-> result.char]
    /\ pc' = "returned"
    /\ UNCHANGED <<input_vars, encoder_vars, chunker_vars, todo, partials,
                   err_if_parallelise, aggregate_vars>>

\* ---------------------------------------------------------------- encoder

\* alphabet_mask(string).
alphabet_mask ==
    /\ pc = "alphabet_mask"
    /\ mask' = mask_string(string)
    /\ pc' = "returned"
    /\ UNCHANGED <<string, input_vars, chunker_vars, todo, partials,
                   err_if_parallelise, aggregate_vars, output>>

\* ----------------------------------------------------------- specifications

InitCall ==
    /\ string = <<>>
    /\ mask = Pending
    /\ strings \in SeqsUpTo(Corpus, MaxStrings)
    /\ length_limit \in 0..UsizeMax
    /\ overflow_checks \in BOOLEAN
    /\ peekable = with_length_limit
    /\ ret = Pending
    /\ emitted = <<>>
    /\ todo = {}
    /\ partials = {}
    /\ err_if_parallelise = Pending
    /\ result = Pending
    /\ seq_encoded = 0
    /\ output = Pending

\* Chunker::with_length_limit(strings, length_limit), then next() repeatedly.
InitChunker == InitCall /\ pc = "collect"

NextChunker == Collect_next

SpecChunker == InitChunker /\ [][NextChunker]_vars

\* find_common_mask_parallel(strings, Some(length_limit)).
Init == InitCall /\ pc = "parallel"

Next == Worker_take \/ Worker_map \/ Reduce \/ Finish

Spec == Init /\ [][Next]_vars

\* common_alphabets(strings, Some(length_limit)).
InitDispatch == InitCall /\ pc = "scan"

NextDispatch ==
    Scan \/ Sequential \/ Worker_take \/ Worker_map \/ Reduce \/ Finish \/ Render

SpecDispatch == InitDispatch /\ [][NextDispatch]_vars

\* alphabet_mask(string).
InitEncoder ==
    /\ string \in SeqsUpTo(Chars, MaxChars)
    /\ mask = Pending
    /\ strings = <<>>
    /\ length_limit = 0
    /\ overflow_checks = FALSE
    /\ peekable = with_length_limit
    /\ ret = Pending
    /\ emitted = <<>>
    /\ todo = {}
    /\ partials = {}
    /\ err_if_parallelise = Pending
    /\ result = Pending
    /\ seq_encoded = 0
    /\ output = Pending
    /\ pc = "alphabet_mask"

NextEncoder == alphabet_mask

SpecEncoder == InitEncoder /\ [][NextEncoder]_vars

\* ------------------------------------------------------------- properties

\* The strings of a sequence of chunks, in order.
RECURSIVE Flatten(_)
Flatten(chunks) ==
    IF chunks = <<>> THEN <<>> ELSE Head(chunks) \o Flatten(Tail(chunks))

\* The true total byte length of a chunk, as a mathematical integer.
RECURSIVE TotalLen(_)
TotalLen(chunk) ==
    IF chunk = <<>> THEN 0 ELSE str_len(Head(chunk)) + TotalLen(Tail(chunk))

\* C1. Chunk coverage: after any number of next() calls the emitted chunks,
\* flattened in emission order, are a prefix of the input, and once next()
\* has returned None they are the whole input.
C1_ChunkCoverage ==
    LET flat == Flatten(emitted) IN
    /\ Len(flat) <= Len(strings)
    /\ flat = SubSeq(strings, 1, Len(flat))
    /\ ret = None => flat = strings

\* C1: an input with a string longer than the limit between two that fit was
\* chunked to its end.
C1_Witness ==
    /\ ret = None
    /\ Len(strings) = 3
    /\ str_len(strings[1]) <= length_limit
    /\ str_len(strings[2]) > length_limit
    /\ str_len(strings[3]) <= length_limit
    /\ Len(emitted) = 3

\* C2. Chunk bound: every emitted chunk has a total byte length of at most
\* length_limit, or is a single string longer than length_limit.
C2_ChunkBound ==
    \A i \in 1..Len(emitted) :
        \/ TotalLen(emitted[i]) <= length_limit
        \/ Len(emitted[i]) = 1 /\ str_len(emitted[i][1]) > length_limit

\* C8. No overflow in size accounting: no addition in Chunker::next aborts,
\* and none wraps: the running total of every emitted chunk is its true sum,
\* so the sum is a value of the counter type.
C8_NoOverflow ==
    /\ ret # Panic
    /\ \A i \in 1..Len(emitted) : TotalLen(emitted[i]) <= UsizeMax

\* C10. No empty chunks: next() never returns an empty chunk, and on an empty
\* input the first next() returns None, so no chunk is emitted.
C10_NoEmptyChunks ==
    /\ \A i \in 1..Len(emitted) : emitted[i] # <<>>
    /\ ret.tag = "Some" => ret.item # <<>>
    /\ (strings = <<>> /\ ret # Pending) => (ret = None /\ emitted = <<>>)

\* C10: next() was called on an empty input.
C10_Witness ==
    /\ strings = <<>>
    /\ ret = None

\* The 7-bit ASCII characters that are neither a letter nor one of the six
\* symbols.
IsLetter(c) == (65 <= c /\ c <= 90) \/ (97 <= c /\ c <= 122)

IsSymbol(c) == c \in {32, 46, 44, 39, 45, 34}

\* C6. The encoder rejects non-symbols in ASCII: a string with a 7-bit ASCII
\* character that is neither a letter nor one of the six symbols gets an
\* error naming an offending character, and no mask.
C6_RejectsAsciiNonSymbols ==
    (/\ mask # Pending
     /\ \E i \in 1..Len(string) :
            string[i] < 128 /\ ~IsLetter(string[i]) /\ ~IsSymbol(string[i]))
    => (/\ mask.tag = "Err"
        /\ \E i \in 1..Len(string) :
              /\ mask.char = string[i]
              /\ ~IsLetter(string[i]) /\ ~IsSymbol(string[i]))

\* C7. The encoder rejects non-ASCII: a string with a character that is not
\* 7-bit ASCII gets an error and no mask.
C7_RejectsNonAscii ==
    (/\ mask # Pending
     /\ \E i \in 1..Len(string) : string[i] >= 128)
    => mask.tag = "Err"

\* Whether every string of the input encodes.
AllEncodable ==
    \A i \in 1..Len(strings) : mask_string(strings[i]).tag = "Ok"

\* The bits set in the mask of every chunk of a set of emitted chunks.
CommonBits(covers) ==
    {b \in 0..31 : \A i \in covers : b \in find_common_mask(emitted[i]).mask}

\* C3. Strategy equivalence: what find_common_mask_parallel returns agrees
\* with find_common_mask over the same input on success versus failure, and
\* on the mask when they succeed, whatever length_limit is.
C3_StrategyEquivalence ==
    pc = "aggregated" =>
        LET sequential == find_common_mask(strings) IN
        /\ result.tag = sequential.tag
        /\ result.tag = "Ok" => result.mask = sequential.mask

\* C3: the parallel path returned a mask merged from several chunks that is
\* neither empty nor the identity.
C3_Witness ==
    /\ pc = "aggregated"
    /\ Len(emitted) >= 2
    /\ result.tag = "Ok"
    /\ result.mask # {}
    /\ result.mask # U32Max

\* C4. Scheduling independence: when every string encodes, whatever the order
\* in which the workers took and mapped the chunks and however the partial
\* masks were grouped and merged, each chunk is merged exactly once, every
\* partial mask is the intersection of the masks of the chunks it covers, and
\* the final mask is the intersection of the masks of all chunks.
C4_SchedulingIndependence ==
    AllEncodable =>
        /\ \A p \in partials :
              /\ p.res = Ok(CommonBits(p.covers))
              /\ \A q \in partials \ {p} : p.covers \cap q.covers = {}
        /\ pc = "aggregated" =>
              /\ result = Ok(CommonBits(1..Len(emitted)))
              /\ \A p \in partials : p.covers = 1..Len(emitted)

\* C4: three chunks of encodable strings were merged into one mask.
C4_Witness ==
    /\ AllEncodable
    /\ pc = "aggregated"
    /\ Len(emitted) = 3
    /\ result.tag = "Ok"
    /\ result.mask # {}
    /\ result.mask # U32Max

\* C5. Parallel failure propagation: when some string fails encoding, what
\* find_common_mask_parallel returns is an error, never a mask, and it is the
\* error of some chunk's own find_common_mask.
C5_FailurePropagation ==
    (pc = "aggregated" /\ ~AllEncodable) =>
        /\ result.tag = "Err"
        /\ \E i \in 1..Len(emitted) : find_common_mask(emitted[i]) = result

\* C5: two chunks failed with different errors and the call returned the
\* error of the later chunk.
C5_Witness ==
    /\ pc = "aggregated"
    /\ Len(emitted) >= 2
    /\ find_common_mask(emitted[1]).tag = "Err"
    /\ find_common_mask(emitted[2]).tag = "Err"
    /\ find_common_mask(emitted[1]) # find_common_mask(emitted[2])
    /\ result = find_common_mask(emitted[2])

\* The true total byte length of the first k strings of the input.
PrefixSum(k) == TotalLen(SubSeq(strings, 1, k))

\* C9. Strategy selection: common_alphabets takes the parallel path exactly
\* when some prefix sum of the byte lengths overflows the counter or exceeds
\* length_limit, the sequential path exactly when the total is at most
\* length_limit without overflow; the condition never reaches the caller as
\* an error: an error returned names a character of a string that fails
\* encoding.
C9_StrategySelection ==
    /\ err_if_parallelise # Pending =>
          /\ err_if_parallelise.tag = "Err" <=>
                \E k \in 1..Len(strings) :
                    PrefixSum(k) > UsizeMax \/ PrefixSum(k) > length_limit
          /\ err_if_parallelise.tag = "Ok" <=>
                (/\ TotalLen(strings) <= UsizeMax
                 /\ TotalLen(strings) <= length_limit)
          /\ err_if_parallelise.tag = "Ok" => ret = Pending /\ pc # "parallel"
          /\ err_if_parallelise.tag = "Err" => pc # "sequential"
    /\ pc = "returned" =>
          IF AllEncodable THEN output.tag = "Ok"
          ELSE /\ output.tag = "PyValueError"
               /\ \E i \in 1..Len(strings) :
                     /\ mask_string(strings[i]) = Err(output.char)

\* C9: the total overflowed the counter, the parallel path ran and the call
\* returned the rendered mask.
C9_Witness ==
    /\ pc = "returned"
    /\ err_if_parallelise.tag = "Err"
    /\ TotalLen(strings) > UsizeMax
    /\ output.tag = "Ok"

\* The chunk the greedy packing gives from the strings that remain: the
\* longest prefix of at most limit bytes, or the first string alone when it is
\* longer than limit.
GreedyChunk(rest, limit) ==
    IF str_len(rest[1]) > limit THEN <<rest[1]>>
    ELSE LET k == CHOOSE n \in 1..Len(rest) :
                    /\ TotalLen(SubSeq(rest, 1, n)) <= limit
                    /\ \A m \in (n + 1)..Len(rest) :
                          TotalLen(SubSeq(rest, 1, m)) > limit
         IN SubSeq(rest, 1, k)

\* C11. Greedy first-fit packing: each chunk next() returns is the longest
\* prefix of the not-yet-emitted input whose total byte length is at most
\* length_limit, or the first remaining string alone when it is longer than
\* length_limit.
C11_GreedyPacking ==
    \A i \in 1..Len(emitted) :
        LET start == Len(Flatten(SubSeq(emitted, 1, i - 1))) IN
        /\ start < Len(strings)
        /\ emitted[i] =
              GreedyChunk(SubSeq(strings, start + 1, Len(strings)), length_limit)

\* The bit of an encodable symbol: space 0, a..z and A..Z 1..26, full stop
\* 27, comma 28, apostrophe 29, hyphen 30, double quote 31.
SymbolClass(c) ==
    CASE c = 32 -> 0
      [] c = 46 -> 27
      [] c = 44 -> 28
      [] c = 39 -> 29
      [] c = 45 -> 30
      [] c = 34 -> 31
      [] 97 <= c /\ c <= 122 -> c - 96
      [] OTHER -> c - 64

\* Whether a string is made of letters and the six symbols only.
IsEncodable(s) == \A j \in 1..Len(s) : IsLetter(s[j]) \/ IsSymbol(s[j])

\* The symbol classes of the characters of a string.
Classes(s) == {SymbolClass(s[j]) : j \in 1..Len(s)}

\* C12. Common alphabet: for a non-empty input of encodable strings and every
\* length_limit, the mask of find_common_mask_parallel, and that of
\* find_common_mask, has bit b set exactly when every string has a character
\* of symbol class b.
C12_CommonAlphabet ==
    (/\ strings # <<>>
     /\ \A i \in 1..Len(strings) : IsEncodable(strings[i]))
    => LET common ==
             {b \in 0..31 : \A i \in 1..Len(strings) : b \in Classes(strings[i])}
       IN /\ find_common_mask(strings) = Ok(common)
          /\ pc = "aggregated" => result = Ok(common)

\* C12: several chunks of encodable strings gave a common alphabet that is
\* smaller than the alphabet of one of the strings.
C12_Witness ==
    /\ pc = "aggregated"
    /\ Len(emitted) >= 2
    /\ \A i \in 1..Len(strings) : IsEncodable(strings[i])
    /\ result.tag = "Ok"
    /\ result.mask # {}
    /\ \E i \in 1..Len(strings) : Classes(strings[i]) # result.mask

\* ASCII upper and lower case of a string.
to_upper(s) ==
    [j \in 1..Len(s) |-> IF 97 <= s[j] /\ s[j] <= 122 THEN s[j] - 32 ELSE s[j]]

to_lower(s) ==
    [j \in 1..Len(s) |-> IF 65 <= s[j] /\ s[j] <= 90 THEN s[j] + 32 ELSE s[j]]

\* C13. Encoding table: for a string of encodable characters mask_string
\* returns the union of the bits of its characters, the same mask for its
\* upper-cased and lower-cased forms, and the mask 0 for the empty string.
C13_EncodingTable ==
    (mask # Pending /\ IsEncodable(string)) =>
        /\ mask = Ok(Classes(string))
        /\ mask_string(to_upper(string)) = mask
        /\ mask_string(to_lower(string)) = mask
        /\ string = <<>> => mask = Ok({})

\* C13: a string of an upper-case letter and a symbol was encoded to two bits.
C13_Witness ==
    /\ mask.tag = "Ok"
    /\ Len(string) = 2
    /\ 65 <= string[1] /\ string[1] <= 90
    /\ IsSymbol(string[2])
    /\ Cardinality(mask.mask) = 2

\* The position of the first string of the input that fails encoding.
FirstFailing ==
    CHOOSE f \in 1..Len(strings) :
        /\ mask_string(strings[f]).tag = "Err"
        /\ \A i \in 1..(f - 1) : mask_string(strings[i]).tag = "Ok"

\* C14. Sequential fail-fast: when some string fails encoding, what
\* find_common_mask returns is the error of the first failing string in
\* input order, never a mask, and no string after that one was encoded.
C14_SequentialFailFast ==
    (/\ err_if_parallelise.tag = "Ok"
     /\ pc \in {"aggregated", "returned"}
     /\ ~AllEncodable)
    => /\ result = mask_string(strings[FirstFailing])
       /\ seq_encoded = FirstFailing

\* C14: the sequential path met a failing string followed by another string
\* that fails differently.
C14_Witness ==
    /\ err_if_parallelise.tag = "Ok"
    /\ pc = "aggregated"
    /\ Len(strings) = 3
    /\ mask_string(strings[1]).tag = "Ok"
    /\ mask_string(strings[2]).tag = "Err"
    /\ mask_string(strings[3]).tag = "Err"
    /\ mask_string(strings[3]) # mask_string(strings[2])
    /\ result = mask_string(strings[2])
    /\ seq_encoded = 2

\* The rendering of the all-ones mask: space, a..z, full stop, comma,
\* apostrophe, hyphen, double quote.
AllSymbols == <<32>> \o [i \in 1..26 |-> 96 + i] \o <<46, 44, 39, 45, 34>>

\* C15. Identity law: for an empty collection the combiner returns the
\* all-ones mask, never an error, and common_alphabets of an empty input
\* returns all 32 encodable symbols, whatever length_limit is.
C15_IdentityLaw ==
    strings = <<>> =>
        /\ find_common_mask(strings) = Ok(0..31)
        /\ pc \in {"aggregated", "returned"} => result = Ok(0..31)
        /\ pc = "returned" => output = [tag |-> "Ok", chars |-> AllSymbols]

\* C15: common_alphabets returned for an empty input and a length_limit of 0.
C15_Witness ==
    /\ strings = <<>>
    /\ length_limit = 0
    /\ pc = "returned"

\* C16. Round-trip rendering: for a mask that mask_string returned,
\* mask_to_chars gives a string of encodable characters, one per set bit in
\* ascending bit order, and mask_string of that string is the same mask.
C16_RoundTrip ==
    mask.tag = "Ok" =>
        LET chars == mask_to_chars(mask.mask) IN
        /\ IsEncodable(chars)
        /\ Len(chars) = Cardinality(mask.mask)
        /\ \A i \in 1..Len(chars) : SymbolClass(chars[i]) \in mask.mask
        /\ \A i \in 1..Len(chars) : \A j \in (i + 1)..Len(chars) :
              SymbolClass(chars[i]) < SymbolClass(chars[j])
        /\ mask_string(chars) = mask

\* C16: the mask of an upper-case letter and a full stop, whose rendering is
\* not the string that was encoded.
C16_Witness ==
    /\ mask.tag = "Ok"
    /\ string = <<46, 65>>
    /\ mask_to_chars(mask.mask) = <<97, 46>>

\* C17. Length-limit validation: a length_limit of zero is rejected: no
\* chunk is emitted and no mask is computed or returned.
C17_ZeroLimitRejected ==
    length_limit = 0 =>
        /\ emitted = <<>>
        /\ result.tag # "Ok"
        /\ output.tag # "Ok"

\* The number of strings a Peekable has handed out: those pulled from the
\* underlying iterator, less the one held in the peeked slot.
Consumed(pk) ==
    pk.pos - (IF pk.peeked.tag = "Some" /\ pk.peeked.item.tag = "Some"
              THEN 1 ELSE 0)

\* C18. Chunker progress and termination: a next() call that returns a chunk
\* consumes at least one string, so at most as many chunks are emitted as
\* there are strings, and once next() has returned None every later call
\* returns None and emits nothing.
C18_ProgressAndTermination ==
    [][/\ ret'.tag = "Some" => Consumed(peekable') > Consumed(peekable)
       /\ Len(emitted') <= Len(strings)
       /\ ret = None => (ret' = None /\ emitted' = emitted)]_vars

\* C18: an input of three strings was chunked to its end in three chunks.
C18_Witness ==
    /\ ret = None
    /\ Len(strings) = 3
    /\ Len(emitted) = 3

\* C19. Bounded look-ahead: when a next() call returns, the strings pulled
\* from the input are those of the chunks emitted so far plus at most one,
\* which is held peeked, is the next string of the input, and is the first
\* member of the next chunk emitted.
C19_BoundedLookAhead ==
    [][/\ ret'.tag \in {"Some", "None"} =>
             LET n == Len(Flatten(emitted')) IN
             IF peekable'.peeked.tag = "Some" /\ peekable'.peeked.item.tag = "Some"
             THEN /\ peekable'.pos = n + 1
                  /\ peekable'.peeked.item.item = strings[n + 1]
             ELSE peekable'.pos = n
       /\ (/\ peekable.peeked.tag = "Some"
           /\ peekable.peeked.item.tag = "Some"
           /\ ret'.tag = "Some")
          => ret'.item[1] = peekable.peeked.item.item]_vars

\* C19: a chunk was closed by a string that is held peeked, after an earlier
\* chunk had been closed the same way.
C19_Witness ==
    /\ ret.tag = "Some"
    /\ Len(emitted) = 2
    /\ peekable.peeked.tag = "Some"
    /\ peekable.peeked.item.tag = "Some"
    /\ peekable.pos = 3

\* C20. Dispatcher/chunker consistency: when common_alphabets takes the
\* sequential path, chunking the input with the same length_limit gives at
\* most one chunk; when it takes the parallel path and the total does not
\* overflow the counter, the chunker emits at least two chunks, or one chunk
\* of a single string longer than length_limit.
C20_DispatcherChunkerConsistency ==
    /\ err_if_parallelise.tag = "Ok" =>
          Len(collect(strings, length_limit, overflow_checks,
                      with_length_limit, <<>>)) <= 1
    /\ (/\ err_if_parallelise.tag = "Err"
        /\ TotalLen(strings) <= UsizeMax
        /\ ret = None)
       => \/ Len(emitted) >= 2
          \/ /\ Len(emitted) = 1
             /\ Len(emitted[1]) = 1
             /\ str_len(emitted[1][1]) > length_limit

\* C20: the parallel path was taken for a single string longer than
\* length_limit and the chunker emitted it alone.
C20_Witness ==
    /\ err_if_parallelise.tag = "Err"
    /\ ret = None
    /\ Len(strings) = 1
    /\ Len(emitted) = 1
    /\ str_len(emitted[1][1]) > length_limit

====
